---- MODULE Spec2Model ----
(***************************************************************************)
(* A model of cloudflare_ddns_updater.py: one run of main(), which loads   *)
(* the configuration from the environment, asks the IP-echo service for    *)
(* the public address, looks the A record up, and PUTs a replacement when  *)
(* the addresses differ.  The environment and the three HTTP responses are *)
(* the inputs; the network calls made, the log lines written, the values   *)
(* returned and the exception (if any) that leaves main() are the state.   *)
(*                                                                         *)
(* Strings read from the environment are sequences of one-character        *)
(* strings, so that strip(), upper() and the substring test of the         *)
(* placeholder heuristic are computed.  Strings that only travel (record   *)
(* ids, names, addresses) are TLA+ strings.  JSON values and Python values *)
(* carry a tag t, because the code's behaviour depends on their type.      *)
(***************************************************************************)
EXTENDS Integers, Sequences, FiniteSets, TLC

\* ------------------------------------------------------------ bounds
\* The longest "result" list of a record-listing response.
MaxRecords == 2
\* The longest "errors" and "messages" lists of an error body.
MaxErrors == 1

\* ------------------------------------------------------------ constants
REQUEST_TIMEOUT_SECONDS == 10
IPIFY_URL == <<"https://api.ipify.org", "format=json">>
CLOUDFLARE_API_BASE == "https://api.cloudflare.com/client/v4"

\* ------------------------------------------------------------ values
\* Python / JSON values, tagged by type.
JNull == [t |-> "null"]
JStr(x) == [t |-> "str", s |-> x]
JInt(x) == [t |-> "int", n |-> x]
JBool(x) == [t |-> "bool", b |-> x]
JList(x) == [t |-> "list", l |-> x]
JObj(x) == [t |-> "obj", o |-> x]

IsObj(j) == j.t = "obj"
Has(j, k) == IsObj(j) /\ k \in DOMAIN j.o

\* Python truth value testing, as used by "if not current_ip", "if records",
\* "if not dns_record" and "x or y".
Truthy(j) ==
    CASE j.t = "null" -> FALSE
      [] j.t = "str" -> j.s # ""
      [] j.t = "int" -> j.n # 0
      [] j.t = "bool" -> j.b
      [] j.t = "list" -> j.l # <<>>
      [] j.t = "obj" -> DOMAIN j.o # {}

Restrict(f, D) == [k \in D |-> f[k]]

\* ------------------------------------------------------------ text
LowerCase == <<"a","b","c","d","e","f","g","h","i","j","k","l","m",
               "n","o","p","q","r","s","t","u","v","w","x","y","z">>
UpperCase == <<"A","B","C","D","E","F","G","H","I","J","K","L","M",
               "N","O","P","Q","R","S","T","U","V","W","X","Y","Z">>

\* str.upper() on one character.
UpperChar(c) ==
    IF \E i \in 1..26 : LowerCase[i] = c
    THEN UpperCase[CHOOSE i \in 1..26 : LowerCase[i] = c]
    ELSE c

\* str.upper()
Upper(s) == [i \in 1..Len(s) |-> UpperChar(s[i])]

IsSpace(c) == c \in {" ", "\t", "\n"}

\* str.strip(): drop leading and trailing whitespace.
Strip(s) ==
    LET keep == {i \in 1..Len(s) : ~IsSpace(s[i])}
    IN  IF keep = {} THEN <<>>
        ELSE LET lo == CHOOSE i \in keep : \A j \in keep : i <= j
                 hi == CHOOSE i \in keep : \A j \in keep : j <= i
             IN  SubSeq(s, lo, hi)

\* "sub in s"
Contains(s, sub) ==
    \E i \in 1..(Len(s) - Len(sub) + 1) : SubSeq(s, i, i + Len(sub) - 1) = sub

W_TOKEN == <<"T","O","K","E","N">>
W_YOUR == <<"Y","O","U","R">>
W_CLOUDFLARE == <<"C","L","O","U","D","F","L","A","R","E">>

\* ------------------------------------------------------------ configuration
EnvVars == {"CLOUDFLARE_API_TOKEN", "CLOUDFLARE_ZONE_ID", "CLOUDFLARE_RECORD_NAME"}

\* os.environ.get(name) or ""
EnvGet(e, name) == IF name \in DOMAIN e THEN e[name] ELSE <<>>

Config(api_token, zone_id, record_name) ==
    [t |-> "config", api_token |-> api_token, zone_id |-> zone_id,
     record_name |-> record_name]

\* The placeholder heuristic of load_config_from_env.
LooksLikePlaceholder(api_token) ==
    LET token_upper == Upper(api_token)
    IN  Contains(token_upper, W_TOKEN)
        /\ (Contains(token_upper, W_YOUR) \/ Contains(token_upper, W_CLOUDFLARE))

\* The names of the variables that are unset or blank, in the order reported.
MissingVars(e) ==
    LET one(name) == IF Strip(EnvGet(e, name)) = <<>> THEN <<name>> ELSE <<>>
    IN  one("CLOUDFLARE_API_TOKEN") \o one("CLOUDFLARE_ZONE_ID")
        \o one("CLOUDFLARE_RECORD_NAME")

\* load_config_from_env(): the value returned and the log lines written.
load_config_from_env(e) ==
    LET api_token == Strip(EnvGet(e, "CLOUDFLARE_API_TOKEN"))
        zone_id == Strip(EnvGet(e, "CLOUDFLARE_ZONE_ID"))
        record_name == Strip(EnvGet(e, "CLOUDFLARE_RECORD_NAME"))
        missing == MissingVars(e)
    IN  IF missing # <<>>
        THEN [ret |-> JNull,
              logs |-> <<[level |-> "ERROR", msg |-> "Missing required environment variable(s)",
                          args |-> missing]>>]
        ELSE IF LooksLikePlaceholder(api_token)
        THEN [ret |-> JNull,
              logs |-> <<[level |-> "ERROR", msg |-> "CLOUDFLARE_API_TOKEN looks like a placeholder value",
                          args |-> <<>>]>>]
        ELSE [ret |-> Config(api_token, zone_id, record_name), logs |-> <<>>]

\* build_headers(api_token)
build_headers(api_token) ==
    [Authorization |-> <<"Bearer ", api_token>>, ContentType |-> "application/json"]

\* ------------------------------------------------------------ results
\* What a call of one of the program's functions leaves behind: the value
\* returned (NoReturn when an exception leaves the function), the exception
\* that leaves it ("none" when it returns), the log lines written and the
\* HTTP calls made, in order.
NoReturn == [t |-> "noreturn"]
Returned(v, lg, cs) == [ret |-> v, raised |-> "none", logs |-> lg, calls |-> cs]
Raised(e, lg, cs) == [ret |-> NoReturn, raised |-> e, logs |-> lg, calls |-> cs]

Log(level, msg, args) == [level |-> level, msg |-> msg, args |-> args]

\* ------------------------------------------------------------ transport
\* The outcome of session.get / session.put: a transport-level exception
\* (a RequestException carrying no response), or a response with a status
\* and a body.  A body is a JSON value, or Unparseable (response.json()
\* raises).
Unparseable == [t |-> "unparseable"]
NetError == [kind |-> "neterr"]
Response(status, body) == [kind |-> "response", status |-> status, body |-> body]
NoResponse == [kind |-> "nothing"]

\* response.raise_for_status(): raises HTTPError for 4xx and 5xx.
RaisesForStatus(resp) == 400 <= resp.status /\ resp.status < 600

\* The outcomes of response.json() on a body that is not JSON.  requests
\* from 2.27 on raises requests.exceptions.JSONDecodeError, which is a
\* RequestException and a ValueError; older releases raise a plain
\* ValueError.  The repository pins no version.
JsonErrorKinds == {"RequestsJSONDecodeError", "ValueError"}

\* ------------------------------------------------------------ error details
\* Iterating a JSON value with "for item in value": the items, or the
\* exception.  (JSON strings are not among the modelled values here.)
Iterate(j) ==
    CASE j.t = "list" -> [exc |-> "none", items |-> j.l]
      [] j.t = "obj" ->
            LET keys == DOMAIN j.o
                RECURSIVE AsSeq(_)
                AsSeq(S) == IF S = {} THEN <<>>
                            ELSE LET k == CHOOSE k \in S : TRUE
                                 IN  <<JStr(k)>> \o AsSeq(S \ {k})
            IN  [exc |-> "none", items |-> AsSeq(keys)]
      [] j.t \in {"null", "int", "bool"} -> [exc |-> "TypeError", items |-> <<>>]

\* dict.get(key, default)
DictGet(j, k, default) == IF k \in DOMAIN j.o THEN j.o[k] ELSE default

\* "; ".join(details) is the empty string, which "if error_details" tests.
JoinIsEmpty(details) ==
    \/ details = <<>>
    \/ /\ Len(details) = 1
       /\ details[1] \in {<<JStr("")>>, <<[t |-> "repr", of |-> JStr("")]>>}

\* _extract_cloudflare_errors(response): the exception that leaves it
\* ("none" when it returns) and the details it returns, one entry per part
\* that "; ".join puts together.
_extract_cloudflare_errors(body) ==
    IF body.t = "unparseable" THEN [raised |-> "none", details |-> <<>>]
    ELSE IF ~IsObj(body) THEN [raised |-> "AttributeError", details |-> <<>>]
    ELSE
    LET errors == Iterate(DictGet(body, "errors", JList(<<>>)))
        messages == Iterate(DictGet(body, "messages", JList(<<>>)))
        errorDetail(item) ==
            <<"code=", DictGet(item, "code", JStr("unknown")),
              " message=", DictGet(item, "message", JStr("unknown error"))>>
        \* str(message) is written [t |-> "repr", of |-> message].
        messageDetail(m) ==
            IF IsObj(m) THEN <<DictGet(m, "message", [t |-> "repr", of |-> m])>>
            ELSE <<[t |-> "repr", of |-> m]>>
    IN  IF errors.exc # "none" THEN [raised |-> errors.exc, details |-> <<>>]
        ELSE IF \E i \in 1..Len(errors.items) : ~IsObj(errors.items[i])
        THEN [raised |-> "AttributeError", details |-> <<>>]
        ELSE IF messages.exc # "none" THEN [raised |-> messages.exc, details |-> <<>>]
        ELSE [raised |-> "none",
              details |-> [i \in 1..Len(errors.items) |-> errorDetail(errors.items[i])]
                          \o [i \in 1..Len(messages.items) |-> messageDetail(messages.items[i])]]

\* A mutant of the except-block that returns the failure without logging it.
HandleRequestException_Silent(what, resp, failure, cs) ==
    Returned(failure, <<>>, cs)

\* The except-block shared by get_dns_record and update_dns_record: the
\* error is logged, with the provider's details when there are any, and
\* `failure` is returned; an exception of the extraction leaves the function.
HandleRequestException(what, resp, failure, cs) ==
    LET ext == IF resp.kind = "response" /\ RaisesForStatus(resp)
               THEN _extract_cloudflare_errors(resp.body)
               ELSE [raised |-> "none", details |-> <<>>]
    IN  IF ext.raised # "none" THEN Raised(ext.raised, <<>>, cs)
        ELSE IF JoinIsEmpty(ext.details)
        THEN Returned(failure, <<Log("ERROR", what, <<>>)>>, cs)
        ELSE Returned(failure, <<Log("ERROR", what, ext.details)>>, cs)

\* ------------------------------------------------------------ the functions
\* value[key] on a JSON value, with a string key: the value, or the exception.
Subscript(j, k) ==
    IF IsObj(j)
    THEN IF k \in DOMAIN j.o THEN [exc |-> "none", val |-> j.o[k]]
         ELSE [exc |-> "KeyError", val |-> JNull]
    ELSE [exc |-> "TypeError", val |-> JNull]

GetCall(url, headers, params) ==
    [method |-> "GET", url |-> url, headers |-> headers, params |-> params,
     timeout |-> REQUEST_TIMEOUT_SECONDS]

PutCall(url, headers, data) ==
    [method |-> "PUT", url |-> url, headers |-> headers, json |-> data,
     timeout |-> REQUEST_TIMEOUT_SECONDS]

\* get_current_ip(): one GET of IPIFY_URL; only a RequestException is caught.
get_current_ip(resp, jsonError) ==
    LET cs == <<GetCall(IPIFY_URL, <<>>, <<>>)>>
        failure == Returned(JNull, <<Log("ERROR", "Error getting current IP", <<>>)>>, cs)
    IN  IF resp.kind = "neterr" THEN failure
        ELSE IF RaisesForStatus(resp) THEN failure
        ELSE IF resp.body.t = "unparseable"
        THEN IF jsonError = "RequestsJSONDecodeError" THEN failure
             ELSE Raised("ValueError", <<>>, cs)
        ELSE LET ip == Subscript(resp.body, "ip")
             IN  IF ip.exc # "none" THEN Raised(ip.exc, <<>>, cs)
                 ELSE Returned(ip.val, <<>>, cs)

ListUrl(zone_id) == <<CLOUDFLARE_API_BASE, "zones", zone_id, "dns_records">>
RecordUrl(zone_id, record_id) ==
    <<CLOUDFLARE_API_BASE, "zones", zone_id, "dns_records", record_id>>

\* A mutant of records[0] that takes the last record, records[-1].
FirstOf_Last(records) ==
    CASE records.t = "list" -> [exc |-> "none", val |-> records.l[Len(records.l)]]
      [] records.t = "obj" -> [exc |-> "KeyError", val |-> JNull]
      [] records.t \in {"int", "bool"} -> [exc |-> "TypeError", val |-> JNull]

\* records[0] under "if records:" of get_dns_record.
FirstOf(records) ==
    CASE records.t = "list" -> [exc |-> "none", val |-> records.l[1]]
      [] records.t = "obj" -> [exc |-> "KeyError", val |-> JNull]
      [] records.t \in {"int", "bool"} -> [exc |-> "TypeError", val |-> JNull]

\* get_dns_record(zone_id, record_name, headers): one GET of the zone's
\* record list, filtered by type A and the name; the first record, or None.
get_dns_record(zone_id, record_name, headers, resp, jsonError) ==
    LET cs == <<GetCall(ListUrl(zone_id), headers, [type |-> "A", name |-> record_name])>>
        what == "Error getting DNS record"
    IN  IF resp.kind = "neterr" \/ RaisesForStatus(resp)
        THEN HandleRequestException(what, resp, JNull, cs)
        ELSE IF resp.body.t = "unparseable"
        THEN IF jsonError = "RequestsJSONDecodeError"
             THEN HandleRequestException(what, resp, JNull, cs)
             ELSE Raised("ValueError", <<>>, cs)
        ELSE IF ~IsObj(resp.body) THEN Raised("AttributeError", <<>>, cs)
        ELSE LET records == DictGet(resp.body, "result", JList(<<>>))
             IN  IF ~Truthy(records) THEN Returned(JNull, <<>>, cs)
                 ELSE LET first == FirstOf(records)
                      IN  IF first.exc # "none" THEN Raised(first.exc, <<>>, cs)
                          ELSE Returned(first.val, <<>>, cs)

\* A mutant of the payload that sends the provider's defaults whenever
\* either field is absent.
UpdatePayload_JointDefault(record, new_ip) ==
    LET complete == {"ttl", "proxied"} \subseteq DOMAIN record.o
    IN  [type |-> JStr("A"),
         name |-> record.o["name"],
         content |-> new_ip,
         ttl |-> IF complete THEN record.o["ttl"] ELSE JInt(1),
         proxied |-> IF complete THEN record.o["proxied"] ELSE JBool(FALSE)]

\* A mutant of the payload that resets the proxy flag.
UpdatePayload_Deproxied(record, new_ip) ==
    [type |-> JStr("A"),
     name |-> record.o["name"],
     content |-> new_ip,
     ttl |-> DictGet(record, "ttl", JInt(1)),
     proxied |-> JBool(FALSE)]

\* The replacement payload of update_dns_record: ttl and proxied are the
\* record's, or 1 and False when the record has none.
UpdatePayload(record, new_ip) ==
    [type |-> JStr("A"),
     name |-> record.o["name"],
     content |-> new_ip,
     ttl |-> DictGet(record, "ttl", JInt(1)),
     proxied |-> DictGet(record, "proxied", JBool(FALSE))]

\* update_dns_record(zone_id, record, new_ip, headers): record["id"] and
\* record["name"] are read before the try; then one PUT of the payload.
update_dns_record(zone_id, record, new_ip, headers, resp) ==
    IF ~IsObj(record) THEN Raised("TypeError", <<>>, <<>>)
    ELSE IF "id" \notin DOMAIN record.o \/ "name" \notin DOMAIN record.o
    THEN Raised("KeyError", <<>>, <<>>)
    ELSE
    LET cs == <<PutCall(RecordUrl(zone_id, record.o["id"]), headers,
                        UpdatePayload(record, new_ip))>>
    IN  IF resp.kind = "neterr" \/ RaisesForStatus(resp)
        THEN HandleRequestException("Error updating DNS record", resp, JBool(FALSE), cs)
        ELSE Returned(JBool(TRUE),
                      <<Log("INFO", "DNS record updated", <<record.o["name"], new_ip>>)>>, cs)

\* ------------------------------------------------------------ inputs
\* Values of the environment variables: unset, or set to a string.
Unset == [set |-> FALSE]
SetTo(v) == [set |-> TRUE, v |-> v]

TokenChoices ==
    {Unset, SetTo(<<>>), SetTo(<<" ", " ">>),
     SetTo(<<" ", "a", "b", "\n">>),
     SetTo(<<"t","o","k","e","n","x","1">>),
     SetTo(<<"y","o","u","r","_","t","o","k","e","n">>),
     SetTo(<<"C","l","o","u","d","f","l","a","r","e","T","o","k","e","n">>)}
ZoneChoices == {Unset, SetTo(<<" ">>), SetTo(<<"z", "1", " ">>)}
NameChoices ==
    {Unset, SetTo(<<>>),
     SetTo(<<"a",".","e","x","a","m","p","l","e",".","c","o","m">>)}

EnvOf(tk, zn, nm) ==
    LET all == [CLOUDFLARE_API_TOKEN |-> tk, CLOUDFLARE_ZONE_ID |-> zn,
                CLOUDFLARE_RECORD_NAME |-> nm]
    IN  [k \in {x \in EnvVars : all[x].set} |-> all[k].v]

Envs == {EnvOf(tk, zn, nm) : tk \in TokenChoices, zn \in ZoneChoices, nm \in NameChoices}

Addresses == {"1.2.3.4", "8.8.8.8"}
RecordIds == {"r1", "r2"}
RecordNames == {"a.example.com"}
ErrorStatuses == {400}

EmptyObj == JObj(<<>>)

\* Bodies of the IP-echo service.
IpBodies ==
    {Unparseable, JList(<<>>), EmptyObj}
    \cup {JObj([ip |-> v]) : v \in {JStr(a) : a \in Addresses} \cup {JStr(""), JNull}}

IpResponses ==
    {NetError, Response(304, Unparseable), Response(503, Unparseable)}
    \cup {Response(200, b) : b \in IpBodies}
    \cup {Response(st, Unparseable) : st \in ErrorStatuses}

\* DNS records as the provider returns them: every field, or lacking some.
Fields == {"id", "name", "content", "ttl", "proxied"}
FullRecords ==
    {[id |-> JStr(i), name |-> JStr(n), content |-> JStr(c), ttl |-> JInt(300),
      proxied |-> JBool(TRUE)] : i \in RecordIds, n \in RecordNames, c \in Addresses}
MissingSets == {{}} \cup {{f} : f \in Fields} \cup {{"ttl", "proxied"}, Fields}
Records == {JObj(Restrict(r, Fields \ m)) : r \in FullRecords, m \in MissingSets}

Listings == UNION {[1..n -> Records] : n \in 0..MaxRecords}

ListingBodies ==
    {Unparseable, JList(<<>>), EmptyObj, JObj([result |-> JNull])}
    \cup {JObj([result |-> JList(l)]) : l \in Listings}

\* Error bodies: {"errors": [...], "messages": [...]}, either key possibly
\* absent, "errors" possibly null, items possibly of another shape.
ErrItems ==
    {JObj([code |-> JInt(6003), message |-> JStr("Invalid request headers")]),
     EmptyObj, JStr("oops")}
MsgItems == {JStr("try again"), JObj([message |-> JStr("try again")])}
Absent == [t |-> "absent"]
ErrorsChoices ==
    {Absent, JNull} \cup {JList(l) : l \in UNION {[1..n -> ErrItems] : n \in 0..MaxErrors}}
MessagesChoices ==
    {Absent} \cup {JList(l) : l \in UNION {[1..n -> MsgItems] : n \in 0..MaxErrors}}
ErrorBodyOf(e, m) ==
    LET all == [errors |-> e, messages |-> m]
    IN  JObj([k \in {x \in {"errors", "messages"} : all[x] # Absent} |-> all[k]])
ProviderError == JList(<<JObj([code |-> JInt(6003), message |-> JStr("Invalid request headers")])>>)
ErrorBodies ==
    {Unparseable, JList(<<>>), ErrorBodyOf(ProviderError, JList(<<JStr("try again")>>))}
    \cup {ErrorBodyOf(e, Absent) : e \in ErrorsChoices}
    \cup {ErrorBodyOf(Absent, m) : m \in MessagesChoices}

LookupResponses ==
    {NetError, Response(304, Unparseable), Response(503, Unparseable)}
    \cup {Response(200, b) : b \in ListingBodies}
    \cup {Response(st, b) : st \in ErrorStatuses, b \in ErrorBodies}

PutResponses ==
    {NetError, Response(200, EmptyObj), Response(304, Unparseable), Response(503, Unparseable)}
    \cup {Response(st, b) : st \in ErrorStatuses, b \in ErrorBodies}

\* ------------------------------------------------------------ state
VARIABLES
    pc,             \* where main() is: "start", "configured", "ip_resolved",
                    \* "looked_up", "done"
    env,            \* the process environment
    config,         \* main's local config
    current_ip,     \* main's local current_ip
    dns_record,     \* main's local dns_record
    update_result,  \* what update_dns_record returned, NotCalled before
    calls,          \* the HTTP calls made so far, in order
    logs,           \* the log lines written so far, in order
    last_response,  \* the outcome of the latest HTTP call
    exit_code,      \* the process's exit status, Unbound while it runs
    raised          \* the exception that left main(), "none" otherwise

vars == <<pc, env, config, current_ip, dns_record, update_result, calls, logs,
          last_response, exit_code, raised>>

Unbound == [t |-> "unbound"]
NotCalled == [t |-> "notcalled"]

Init ==
    /\ pc = "start"
    /\ env \in Envs
    /\ config = Unbound
    /\ current_ip = Unbound
    /\ dns_record = Unbound
    /\ update_result = NotCalled
    /\ calls = <<>>
    /\ logs = <<>>
    /\ last_response = NoResponse
    /\ exit_code = Unbound
    /\ raised = "none"

\* ------------------------------------------------------------ main()
\* "return code" in main(): a mutant whose exit status is always 0, as when
\* line 195 calls main() and drops what it returns.
Return_Dropped(code) ==
    /\ pc' = "done"
    /\ exit_code' = JInt(0)
    /\ raised' = "none"

\* "return code" in main(), which line 195 turns into the exit status.
Return(code) ==
    /\ pc' = "done"
    /\ exit_code' = JInt(code)
    /\ raised' = "none"

\* An exception that nothing in main() catches leaves main() and line 195;
\* the interpreter prints the traceback and exits with status 1.
Propagate(exc) ==
    /\ pc' = "done"
    /\ exit_code' = JInt(1)
    /\ raised' = exc

\* The response is what the latest call got, when the callee made a call.
Observe(r, resp) ==
    /\ calls' = calls \o r.calls
    /\ last_response' = IF r.calls # <<>> THEN resp ELSE last_response

\* "if config is None" (line 153).
ConfigMissing(cfg) == cfg.t = "null"

\* "if not current_ip" (line 159): a mutant that never stops the run.
IpMissing_Never(ip) == FALSE

\* "if not current_ip" (line 159).
IpMissing(ip) == ~Truthy(ip)

\* "if not dns_record" (line 165): a mutant that never stops the run.
RecordMissing_Never(rec) == FALSE

\* "if not dns_record" (line 165).
RecordMissing(rec) == ~Truthy(rec)

\* "if current_ip == existing_ip" (line 175): a mutant that inverts the test.
IpMatches_Inverted(ip, existing_ip) == ip # existing_ip

\* "if current_ip == existing_ip" (line 175).
IpMatches(ip, existing_ip) == ip = existing_ip

\* Lines 152-154: load the configuration, return 1 without it.
MainLoadConfig ==
    /\ pc = "start"
    /\ LET r == load_config_from_env(env)
       IN  /\ config' = r.ret
           /\ logs' = logs \o r.logs
           /\ IF ConfigMissing(r.ret)
              THEN Return(1)
              ELSE pc' = "configured" /\ UNCHANGED <<exit_code, raised>>
    /\ UNCHANGED <<env, current_ip, dns_record, update_result, calls, last_response>>

\* Lines 156-163: resolve the public address, return 1 without it.
MainGetCurrentIp ==
    /\ pc = "configured"
    /\ \E resp \in IpResponses, jsonError \in JsonErrorKinds :
         LET r == get_current_ip(resp, jsonError)
             starting == <<Log("INFO", "Starting Cloudflare DDNS update process...", <<>>)>>
         IN  /\ Observe(r, resp)
             /\ IF r.raised # "none"
                THEN /\ Propagate(r.raised)
                     /\ logs' = logs \o starting \o r.logs
                     /\ UNCHANGED current_ip
                ELSE /\ current_ip' = r.ret
                     /\ IF IpMissing(r.ret)
                        THEN /\ Return(1)
                             /\ logs' = logs \o starting \o r.logs \o
                                  <<Log("ERROR", "Could not determine current public IP. Exiting.", <<>>)>>
                        ELSE /\ pc' = "ip_resolved"
                             /\ logs' = logs \o starting \o r.logs \o
                                  <<Log("INFO", "Current public IP", <<r.ret>>)>>
                             /\ UNCHANGED <<exit_code, raised>>
    /\ UNCHANGED <<env, config, dns_record, update_result>>

\* Lines 164-170: look the record up, return 1 without it.
MainGetDnsRecord ==
    /\ pc = "ip_resolved"
    /\ \E resp \in LookupResponses, jsonError \in JsonErrorKinds :
         LET r == get_dns_record(config.zone_id, config.record_name,
                                 build_headers(config.api_token), resp, jsonError)
         IN  /\ Observe(r, resp)
             /\ IF r.raised # "none"
                THEN /\ Propagate(r.raised)
                     /\ logs' = logs \o r.logs
                     /\ UNCHANGED dns_record
                ELSE /\ dns_record' = r.ret
                     /\ IF RecordMissing(r.ret)
                        THEN /\ Return(1)
                             /\ logs' = logs \o r.logs \o
                                  <<Log("ERROR", "DNS record not found. Please create it manually in Cloudflare first. Exiting.",
                                        <<config.record_name>>)>>
                        ELSE /\ pc' = "looked_up"
                             /\ logs' = logs \o r.logs
                             /\ UNCHANGED <<exit_code, raised>>
    /\ UNCHANGED <<env, config, current_ip, update_result>>

\* Lines 172-191: compare the addresses; on a mismatch update the record and
\* return 1 when the update failed; return 0 otherwise.
MainReconcile ==
    /\ pc = "looked_up"
    /\ LET existing_ip == Subscript(dns_record, "content")
       IN  IF existing_ip.exc # "none"
           THEN /\ Propagate(existing_ip.exc)
                /\ UNCHANGED <<update_result, calls, logs, last_response>>
           ELSE IF IpMatches(current_ip, existing_ip.val)
           THEN /\ Return(0)
                /\ logs' = logs \o
                     <<Log("INFO", "Existing Cloudflare DNS IP", <<config.record_name, existing_ip.val>>),
                       Log("INFO", "Current IP matches existing DNS record. No update needed.", <<>>),
                       Log("INFO", "Cloudflare DDNS update process finished.", <<>>)>>
                /\ UNCHANGED <<update_result, calls, last_response>>
           ELSE \E resp \in PutResponses :
                  LET r == update_dns_record(config.zone_id, dns_record, current_ip,
                                             build_headers(config.api_token), resp)
                      before ==
                        <<Log("INFO", "Existing Cloudflare DNS IP", <<config.record_name, existing_ip.val>>),
                          Log("INFO", "IP mismatch detected. Updating",
                              <<config.record_name, existing_ip.val, current_ip>>)>>
                  IN  /\ Observe(r, resp)
                      /\ update_result' = r.ret
                      /\ IF r.raised # "none"
                         THEN /\ Propagate(r.raised)
                              /\ logs' = logs \o before \o r.logs
                         ELSE IF Truthy(r.ret)
                         THEN /\ Return(0)
                              /\ logs' = logs \o before \o r.logs \o
                                   <<Log("INFO", "DDNS update successful.", <<>>),
                                     Log("INFO", "Cloudflare DDNS update process finished.", <<>>)>>
                         ELSE /\ Return(1)
                              /\ logs' = logs \o before \o r.logs \o
                                   <<Log("ERROR", "DDNS update failed.", <<>>)>>
    /\ UNCHANGED <<env, config, current_ip, dns_record>>

Next ==
    \/ MainLoadConfig
    \/ MainGetCurrentIp
    \/ MainGetDnsRecord
    \/ MainReconcile

Spec == Init /\ [][Next]_vars

\* ------------------------------------------------------------ observations
IsBound(v) == v.t \notin {"unbound", "noreturn", "notcalled"}

IsPut(c) == c.method = "PUT"
IsGet(c) == c.method = "GET"
Puts == SelectSeq(calls, IsPut)

ConfigLoaded == config.t = "config"
IpResolved == IsBound(current_ip) /\ Truthy(current_ip)
RecordFound == IsBound(dns_record) /\ Truthy(dns_record)
UpdateInvoked == update_result # NotCalled

IsIpCall(c) == IsGet(c) /\ c.url = IPIFY_URL
IsListCall(c) == IsGet(c) /\ ConfigLoaded /\ c.url = ListUrl(config.zone_id)

\* The state right after the IP-resolution step, and after the lookup step:
\* last_response is what that step's call got.
AfterIpStep == Len(calls) = 1 /\ IsIpCall(calls[1]) /\ pc # "configured"
AfterLookupStep == Len(calls) = 2 /\ IsListCall(calls[2]) /\ pc # "ip_resolved"

Is2xx(resp) == resp.kind = "response" /\ 200 <= resp.status /\ resp.status < 300

\* A record-listing response that carries a list of records.
IsListing(resp) ==
    /\ Is2xx(resp)
    /\ Has(resp.body, "result")
    /\ resp.body.o["result"].t = "list"
ListingOf(resp) == resp.body.o["result"].l

\* A transport or HTTP error, as the code sees one.
IsTransportFailure(resp) ==
    resp.kind = "neterr" \/ (resp.kind = "response" /\ 400 <= resp.status)

HasLog(msg) == \E i \in 1..Len(logs) : logs[i].msg = msg

\* ------------------------------------------------------------ claims
\* C1 (idempotence): in every finished run in which the configuration
\* loaded, the resolved address is non-empty and the looked-up record's
\* content equals the resolved address, update_dns_record was not invoked,
\* no PUT was made, and the exit code is 0.
C1_Precondition ==
    /\ pc = "done"
    /\ ConfigLoaded
    /\ IpResolved
    /\ RecordFound
    /\ Has(dns_record, "content")
    /\ dns_record.o["content"] = current_ip

C1_Idempotence ==
    C1_Precondition =>
        /\ ~UpdateInvoked
        /\ Puts = <<>>
        /\ exit_code = JInt(0)
        /\ raised = "none"

C1_Witness == C1_Precondition /\ exit_code = JInt(0) /\ Len(calls) = 2

\* C2 (preservation): a run makes at most one PUT; an update invoked on a
\* record that carries an id and a name makes exactly one; and the PUT goes
\* to the zone's path for the looked-up record's id, with type "A", the
\* record's name, the newly resolved address as content, and the record's
\* own ttl and proxied wherever the record carries them: of the fields the
\* payload shares with the record snapshot only content differs.
C2_PutMatchesRecord(put) ==
    /\ put.url = RecordUrl(config.zone_id, dns_record.o["id"])
    /\ put.headers = build_headers(config.api_token)
    /\ put.timeout = REQUEST_TIMEOUT_SECONDS
    /\ DOMAIN put.json = {"type", "name", "content", "ttl", "proxied"}
    /\ put.json.type = JStr("A")
    /\ put.json.name = dns_record.o["name"]
    /\ put.json.content = current_ip
    /\ Has(dns_record, "content") /\ put.json.content # dns_record.o["content"]
    /\ \A f \in {"ttl", "proxied"} : Has(dns_record, f) => put.json[f] = dns_record.o[f]

C2_Preservation ==
    /\ Len(Puts) <= 1
    /\ (UpdateInvoked /\ Has(dns_record, "id") /\ Has(dns_record, "name")) => Len(Puts) = 1
    /\ Puts # <<>> => UpdateInvoked
    /\ \A i \in 1..Len(Puts) : C2_PutMatchesRecord(Puts[i])

C2_Witness ==
    /\ pc = "done"
    /\ Len(Puts) = 1
    /\ Has(dns_record, "ttl") /\ dns_record.o["ttl"] = JInt(300)
    /\ Has(dns_record, "proxied") /\ dns_record.o["proxied"] = JBool(TRUE)
    /\ Puts[1].json.ttl = JInt(300)
    /\ Puts[1].json.proxied = JBool(TRUE)
    /\ update_result = JBool(TRUE)

\* C3 (exit codes): a run has no exit code until it ends, and ends with exit
\* code 0 or 1; the code is 0 exactly when the reconciliation completed: the
\* configuration loaded, a non-empty address was resolved, a record was found
\* and either its content equals the address or the update was invoked and
\* returned true.
C3_Completed ==
    /\ ConfigLoaded
    /\ IpResolved
    /\ RecordFound
    /\ Has(dns_record, "content")
    /\ \/ dns_record.o["content"] = current_ip
       \/ update_result = JBool(TRUE)

C3_ExitCodes ==
    /\ pc # "done" => exit_code = Unbound
    /\ pc = "done" =>
          /\ exit_code \in {JInt(0), JInt(1)}
          /\ exit_code = JInt(0) <=> C3_Completed

C3_Witness ==
    /\ pc = "done"
    /\ exit_code = JInt(1)
    /\ update_result = JBool(FALSE)
    /\ Len(Puts) = 1

\* C4 (fatal not-found): when the record-listing response carries zero
\* records, the run ends at once by returning 1, and it has made no PUT and
\* no call other than its two GETs (so no record is created).
C4_ZeroRecords ==
    /\ AfterLookupStep
    /\ IsListing(last_response)
    /\ ListingOf(last_response) = <<>>

C4_FatalNotFound ==
    C4_ZeroRecords =>
        /\ pc = "done"
        /\ exit_code = JInt(1)
        /\ raised = "none"
        /\ dns_record = JNull
        /\ ~UpdateInvoked
        /\ \A i \in 1..Len(calls) : IsGet(calls[i])

C4_Witness == C4_ZeroRecords /\ pc = "done" /\ exit_code = JInt(1)

\* C5 (short-circuit ordering): a run without a configuration ends with exit
\* code 1 having made no network call; a run whose IP resolution failed ends
\* having made the IP-echo GET and nothing else; and the calls of any run are
\* a prefix of: the IP-echo GET, the record-list GET, the PUT (no retry).
C5_IpStepFailed ==
    /\ pc = "done"
    /\ ConfigLoaded
    /\ ~IpResolved

C5_ShortCircuit ==
    /\ IsBound(config) /\ ~ConfigLoaded =>
          pc = "done" /\ exit_code = JInt(1) /\ calls = <<>>
    /\ C5_IpStepFailed =>
          exit_code = JInt(1) /\ Len(calls) = 1 /\ IsIpCall(calls[1])
    /\ Len(calls) <= 3
    /\ Len(calls) >= 1 => IsIpCall(calls[1])
    /\ Len(calls) >= 2 => IsListCall(calls[2])
    /\ Len(calls) >= 3 => IsPut(calls[3])

C5_Witness == C5_IpStepFailed /\ last_response = NetError /\ Len(calls) = 1

\* C6 (default substitution): the payload of every PUT carries ttl 1 when
\* the looked-up record has no ttl and the record's ttl when it has one, and
\* proxied false when the record has no proxied and the record's proxied when
\* it has one, each field by itself.
C6_FieldOrDefault(put, f, default) ==
    put.json[f] = IF Has(dns_record, f) THEN dns_record.o[f] ELSE default

C6_DefaultSubstitution ==
    \A i \in 1..Len(Puts) :
        /\ C6_FieldOrDefault(Puts[i], "ttl", JInt(1))
        /\ C6_FieldOrDefault(Puts[i], "proxied", JBool(FALSE))

C6_Witness ==
    /\ Len(Puts) = 1
    /\ ~Has(dns_record, "ttl")
    /\ Has(dns_record, "proxied")
    /\ Puts[1].json.ttl = JInt(1)
    /\ Puts[1].json.proxied = JBool(TRUE)

\* C7 (first match): after a lookup whose response lists one or more
\* records, dns_record is the first entry of the list; main() never rebinds
\* dns_record afterwards; the comparison is with that record's content (an
\* update is invoked exactly when it differs from the resolved address) and
\* the PUT's record id, name, ttl and proxied are that record's.
C7_Returned ==
    (AfterLookupStep /\ IsListing(last_response) /\ ListingOf(last_response) # <<>>
        /\ raised = "none")
    => dns_record = ListingOf(last_response)[1]

C7_Derived ==
    /\ (pc = "done" /\ raised = "none" /\ RecordFound) =>
          (UpdateInvoked <=> dns_record.o["content"] # current_ip)
    /\ \A i \in 1..Len(Puts) :
          /\ Puts[i].url = RecordUrl(config.zone_id, dns_record.o["id"])
          /\ Puts[i].json.name = dns_record.o["name"]
          /\ C6_FieldOrDefault(Puts[i], "ttl", JInt(1))
          /\ C6_FieldOrDefault(Puts[i], "proxied", JBool(FALSE))

C7_FirstMatch ==
    /\ [](C7_Returned /\ C7_Derived)
    /\ [][pc = "looked_up" => dns_record' = dns_record]_vars

C7_Witness ==
    /\ pc = "done"
    /\ AfterLookupStep
    /\ IsListing(last_response)
    /\ Len(ListingOf(last_response)) = 2
    /\ ListingOf(last_response)[1] # ListingOf(last_response)[2]
    /\ Has(ListingOf(last_response)[2], "content")
    /\ ListingOf(last_response)[2].o["content"] # current_ip
    /\ dns_record = ListingOf(last_response)[1]
    /\ exit_code = JInt(0)

\* C8 (resolver failure signal): after the IP-resolution step, whenever the
\* IP-echo call had a bad outcome (a network error, a status that is not 2xx,
\* a body that is not JSON, or JSON without an "ip" field), get_current_ip
\* returned None and no exception left it.
C8_BadOutcome(resp) ==
    \/ resp.kind = "neterr"
    \/ /\ resp.kind = "response"
       /\ \/ ~Is2xx(resp)
          \/ resp.body.t = "unparseable"
          \/ ~Has(resp.body, "ip")

C8_ResolverReturnsNone ==
    (AfterIpStep /\ C8_BadOutcome(last_response)) =>
        raised = "none" /\ current_ip = JNull

\* C9 (update boundary): whenever update_dns_record was invoked, no exception
\* left it and it returned a boolean: true when the PUT was answered 2xx,
\* false when the PUT met a transport or HTTP error.
C9_UpdateReturnsBoolean ==
    UpdateInvoked =>
        /\ raised = "none"
        /\ update_result \in {JBool(TRUE), JBool(FALSE)}
        /\ Len(Puts) = 1
        /\ Is2xx(last_response) => update_result = JBool(TRUE)
        /\ IsTransportFailure(last_response) => update_result = JBool(FALSE)

\* C10, as stated (distinct values): after a lookup that met a transport or
\* HTTP error and returned, the value returned differs from the value the
\* lookup returns for an empty result list.
C10_NotFoundValue ==
    get_dns_record(config.zone_id, config.record_name, build_headers(config.api_token),
                   Response(200, JObj([result |-> JList(<<>>)])), "ValueError").ret

C10_LookupFailed ==
    AfterLookupStep /\ IsTransportFailure(last_response) /\ raised = "none"

====
